---------------------------- MODULE Spec2Model ----------------------------
(***************************************************************************)
(* real-file-type: detection of a file's type from its leading bytes.      *)
(*                                                                         *)
(* src/index.js holds three functions:                                     *)
(*   check(bufferss, typeItem)      does the byte window carry a signature *)
(*   getArrayBuffer(file, options)  a Promise of the window's bytes        *)
(*   getFileType(file, options)     the scan of signatureList, behind      *)
(*                                  .then(...).catch(err => err)           *)
(*                                                                         *)
(* Three specifications share the definitions below:                       *)
(*   SpecCheck  check applied to every small window and signature entry,   *)
(*              then to the window with one byte changed;                  *)
(*   SpecScan   the .then callback and the .catch handler of getFileType   *)
(*              applied to every small window, file and signature list;    *)
(*   Spec       one getFileType call from the call to the settled promise, *)
(*              with the FileReader's events, against the signature list   *)
(*              of the README.                                             *)
(***************************************************************************)
EXTENDS Integers, Sequences, FiniteSets

VARIABLES
    bufferss,       \* check's first argument: the byte window
    typeItem,       \* check's second argument: a signature entry
    pcCheck,        \* "ready": check not yet applied to bufferss; "done"
    ret,            \* check's return value
    exitAt,         \* the loop index i at which check returned
    prior,          \* <<>>, or the window and verdict before a byte was changed
    file,           \* getFileType's File: [name, type, bytes]
    signatureList,  \* the imported signature list
    reader,         \* "none" | "reading": the FileReader of getArrayBuffer
    fired,          \* the reader's events delivered so far, in order
    arrayBufferP,   \* the promise getArrayBuffer returns
    thenP,          \* the promise .then(...) returns
    fileTypeP,      \* the promise .catch(...) returns: getFileType's result
    scans           \* passes of the scan loop run so far

checkVars == <<bufferss, typeItem, pcCheck, ret, exitAt, prior>>
callVars == <<file, signatureList, reader, fired, arrayBufferP, thenP, fileTypeP, scans>>
vars == <<bufferss, typeItem, pcCheck, ret, exitAt, prior,
          file, signatureList, reader, fired, arrayBufferP, thenP, fileTypeP, scans>>

---------------------------------------------------------------------------
(* Bounds of the model. *)

\* SpecCheck: byte values 0..MaxByte, windows of at most MaxBufLen bytes,
\* signatures of at most MaxSigLen positions, offsets 0..MaxOffset.
MaxByte == 1
MaxBufLen == 3
MaxSigLen == 2
MaxOffset == 1
\* SpecScan: lists of at most MaxTable entries, each a signature of at most
\* TblSigLen positions (bytes 0..TblMaxByte or undefined) at an offset
\* 0..TblOffset; files of at most MaxFileLen bytes 0..MaxByte.  The README's
\* list and sample files are added to these.
MaxTable == 2
TblSigLen == 1
TblMaxByte == 0
TblOffset == 0
MaxFileLen == 1

\* Spec: how many events the reader delivers.  A FileReader delivers one of
\* load, error and abort per read; the model lets it deliver more, so that
\* the promise's behaviour on a later event is exercised.
MaxEvents == 2

---------------------------------------------------------------------------
(* JavaScript values. *)

\* undefined: a signature position that matches any byte, an index beyond
\* the end of an array, an omitted offset.  No byte has this value.
Undefined == -1

Byte == 0 .. MaxByte

\* array[index] with a zero-based index: undefined outside the array.
At(array, index) ==
    IF index >= 0 /\ index < Len(array) THEN array[index + 1] ELSE Undefined

SeqsUpTo(S, n) == UNION {[1 .. k -> S] : k \in 0 .. n}

---------------------------------------------------------------------------
(* check, src/index.js lines 8-16. *)

\* { signature, offset = 0 }: an omitted offset is 0.
offsetOf(item) == IF item.offset = Undefined THEN 0 ELSE item.offset

\* len = signature.length, the loop's bound.
loopLenShort(signature) == IF Len(signature) > 0 THEN Len(signature) - 1 ELSE 0

loopLen(signature) == Len(signature)

\* The if of line 12, with || for &&.
mismatchOr(buf, signature, offset, i) ==
    \/ At(buf, i + offset) # At(signature, i)
    \/ At(signature, i) # Undefined

\* The if of line 12, reading bufferss[i] for bufferss[i + offset].
mismatchNoOffset(buf, signature, offset, i) ==
    /\ At(buf, i) # At(signature, i)
    /\ At(signature, i) # Undefined

\* The if of line 12, with an index beyond the window accepted.
mismatchInBounds(buf, signature, offset, i) ==
    /\ i + offset < Len(buf)
    /\ At(buf, i + offset) # At(signature, i)
    /\ At(signature, i) # Undefined

\* bufferss[i + offset] !== signature[i] && signature[i] !== undefined
mismatch(buf, signature, offset, i) ==
    /\ At(buf, i + offset) # At(signature, i)
    /\ At(signature, i) # Undefined

\* The for loop from index i on: the verdict, and the index it returned at.
RECURSIVE checkLoop(_, _, _, _)
checkLoop(buf, signature, offset, i) ==
    IF i < loopLen(signature)
    THEN IF mismatch(buf, signature, offset, i)
         THEN [ret |-> FALSE, i |-> i]
         ELSE checkLoop(buf, signature, offset, i + 1)
    ELSE [ret |-> TRUE, i |-> i]

check(buf, item) == checkLoop(buf, item.signature, offsetOf(item), 0).ret

---------------------------------------------------------------------------
(* SpecCheck: check on every window and entry within the bounds. *)

\* Signatures of the README's kind: at least one position, each a byte or
\* undefined.
Signatures(maxLen) == SeqsUpTo(Byte \cup {Undefined}, maxLen) \ {<<>>}

Offsets(maxOff) == (0 .. maxOff) \cup {Undefined}

\* The fields of a signature entry that check reads.
TypeItems == [signature : Signatures(MaxSigLen), offset : Offsets(MaxOffset)]

Buffers == SeqsUpTo(Byte, MaxBufLen)

NoFile == [name |-> "", type |-> "", bytes |-> <<>>]
NoValue == [kind |-> "none"]
\* A promise not yet created, and one created and not settled.
NoPromise == [state |-> "none", value |-> NoValue]
Pending == [state |-> "pending", value |-> NoValue]

\* The variables of a getFileType call, before any call.
NoCall ==
    /\ reader = "none"
    /\ fired = <<>>
    /\ arrayBufferP = NoPromise
    /\ thenP = NoPromise
    /\ fileTypeP = NoPromise
    /\ scans = 0

InitCheck ==
    /\ bufferss \in Buffers
    /\ typeItem \in TypeItems
    /\ pcCheck = "ready"
    /\ ret = FALSE
    /\ exitAt = 0
    /\ prior = <<>>
    /\ file = NoFile
    /\ signatureList = <<>>
    /\ NoCall

\* check(bufferss, typeItem) runs to its return.
CheckCall ==
    /\ pcCheck = "ready"
    /\ ret' = check(bufferss, typeItem)
    /\ exitAt' = checkLoop(bufferss, typeItem.signature, offsetOf(typeItem), 0).i
    /\ pcCheck' = "done"
    /\ UNCHANGED <<bufferss, typeItem, prior>>
    /\ UNCHANGED callVars

\* The caller changes one byte of the window, the byte at index k to v, and
\* asks again.
Flip(k, v) ==
    /\ pcCheck = "done"
    /\ prior = <<>>
    /\ k < Len(bufferss)
    /\ v # bufferss[k + 1]
    /\ prior' = Append(prior, [bufferss |-> bufferss, ret |-> ret, at |-> k])
    /\ bufferss' = [bufferss EXCEPT ![k + 1] = v]
    /\ pcCheck' = "ready"
    /\ UNCHANGED <<typeItem, ret, exitAt>>
    /\ UNCHANGED callVars

NextCheck ==
    \/ CheckCall
    \/ \E k \in 0 .. MaxBufLen - 1, v \in Byte : Flip(k, v)

SpecCheck == InitCheck /\ [][NextCheck]_vars

---------------------------------------------------------------------------
(* Claims about check, under SpecCheck. *)

sig == typeItem.signature
off == offsetOf(typeItem)
Positions == 0 .. Len(sig) - 1
Concrete(i) == At(sig, i) # Undefined

\* The window carries the signature: every concrete position's byte is in
\* the window and equal to the signature's.
Carries(buf) ==
    \A i \in Positions : Concrete(i) => At(buf, i + off) = At(sig, i)

\* C3: whenever the bytes of the window at offset .. offset+len-1 equal the
\* signature at each concrete position, whatever the other bytes and the
\* bytes at the wildcard positions are, check returns true.
C3_MatchWhenPatternPresent ==
    (pcCheck = "done" /\ Carries(bufferss)) => ret = TRUE

\* C3's case: an entry at an offset of 1 or more with a wildcard and a
\* concrete position, a window that carries it, and check has returned.
C3_Witness ==
    /\ pcCheck = "done"
    /\ Carries(bufferss)
    /\ off >= 1
    /\ \E i, j \in Positions : Concrete(i) /\ ~Concrete(j)
    /\ ret = TRUE

LastPrior == prior[Len(prior)]

\* The last change hit the window byte under a concrete signature position.
FlippedConcrete ==
    \E i \in Positions : Concrete(i) /\ LastPrior.at = i + off

\* C4: when a window matched an entry and one byte under a concrete
\* position of the signature is changed to another value, check on the
\* changed window returns false.
C4_FlipConcreteByteFails ==
    (/\ pcCheck = "done"
     /\ prior # <<>>
     /\ LastPrior.ret = TRUE
     /\ FlippedConcrete) => ret = FALSE

\* C4's case: a matching window, a byte under a concrete position changed,
\* and check has returned on the changed window.
C4_Witness ==
    /\ pcCheck = "done"
    /\ prior # <<>>
    /\ LastPrior.ret = TRUE
    /\ FlippedConcrete
    /\ Len(sig) = 2
    /\ ret = FALSE

\* C5 as claimed: a window shorter than offset + len(signature) makes check
\* return false.
C5_ShortBufferNeverMatches ==
    (pcCheck = "done" /\ Len(bufferss) < off + Len(sig)) => ret = FALSE

\* C5 as amended: a window that ends before some concrete position of the
\* signature makes check return false, at a position of the signature.
C5_ConcreteBeyondEndFails ==
    (/\ pcCheck = "done"
     /\ \E i \in Positions : Concrete(i) /\ i + off >= Len(bufferss))
        => (ret = FALSE /\ exitAt \in Positions)

\* C5's case: a window, empty or not, that ends before a concrete
\* position, and check has returned false.
C5_Witness ==
    /\ pcCheck = "done"
    /\ Len(bufferss) > 0
    /\ Len(bufferss) < off + Len(sig)
    /\ \E i \in Positions : Concrete(i) /\ i + off >= Len(bufferss)
    /\ ret = FALSE

\* C8: check never returns false at a wildcard position, whatever the
\* window holds there and also when the window ends before it; when check
\* returns false, it does so at a concrete position whose byte is absent
\* or differs.
C8_WildcardNeverFails ==
    (pcCheck = "done" /\ ret = FALSE) =>
        /\ exitAt \in Positions
        /\ Concrete(exitAt)
        /\ At(bufferss, exitAt + off) # At(sig, exitAt)

\* C8's case: a wildcard position beyond the end of the window, the
\* concrete positions matching, and check has returned true.
C8_Witness ==
    /\ pcCheck = "done"
    /\ \E i \in Positions : ~Concrete(i) /\ i + off >= Len(bufferss)
    /\ \E i \in Positions : Concrete(i)
    /\ ret = TRUE

---------------------------------------------------------------------------
(* Promises and their values. *)

Fulfilled(v) == [state |-> "fulfilled", value |-> v]
Rejected(v) == [state |-> "rejected", value |-> v]
Settled(p) == p.state \in {"fulfilled", "rejected"}

\* The Uint8Array of the window, a {mime, ext} object, and what error and
\* abort events and an exception carry.
BuffersValue(b) == [kind |-> "buffers", buffers |-> b]
TypeValue(mime, ext) == [kind |-> "type", mime |-> mime, ext |-> ext]
ErrorValue(e) == [kind |-> "error", err |-> e]

\* The promise's resolve and reject functions: the first call settles the
\* promise, a later call changes nothing.
reslove(p, v) == IF p.state = "pending" THEN Fulfilled(v) ELSE p
reject(p, v) == IF p.state = "pending" THEN Rejected(v) ELSE p

---------------------------------------------------------------------------
(* getArrayBuffer, src/index.js lines 23-38. *)

\* options = { start: 0, end: 32 }
DefaultStart == 0
DefaultEnd == 32

Min(a, b) == IF a < b THEN a ELSE b

\* file.slice(start, end), read to the end: the bytes start .. end-1 that
\* the file has.
slice(bytes, start, end) == SubSeq(bytes, start + 1, Min(end, Len(bytes)))

\* new Uint8Array(e.target.result)
windowOf(f) == BuffersValue(slice(f.bytes, DefaultStart, DefaultEnd))

---------------------------------------------------------------------------
(* getFileType, src/index.js lines 45-58. *)

\* Line 52 returning the declared type for the entry's.
foundDeclared(item, f) == TypeValue(f.type, item.ext)

\* const { mime, ext } = signatureList[i]; return { mime, ext };
found(item, f) == TypeValue(item.mime, item.ext)

\* Line 56 returning an empty type for the declared one.
notFoundEmpty(f) == TypeValue("", "")

\* return { mime: file.type, ext: "" };
notFound(f) == TypeValue(f.type, "")

\* The for loop of lines 49-54 from index i on, then line 56.
RECURSIVE scanLoop(_, _, _, _)
scanLoop(buffers, list, f, i) ==
    IF i < Len(list)
    THEN IF check(buffers, list[i + 1])
         THEN found(list[i + 1], f)
         ELSE scanLoop(buffers, list, f, i + 1)
    ELSE notFound(f)

\* The loop running from the last entry to the first.
RECURSIVE scanDown(_, _, _, _)
scanDown(buffers, list, f, i) ==
    IF i > 0
    THEN IF check(buffers, list[i])
         THEN found(list[i], f)
         ELSE scanDown(buffers, list, f, i - 1)
    ELSE notFound(f)

scanLast(buffers, list, f) == scanDown(buffers, list, f, Len(list))

\* The .then callback: (buffers) => { for ... }
scan(buffers, list, f) == scanLoop(buffers, list, f, 0)

\* No .catch: a rejection stays a rejection.
catchMissing(p) == p

\* .catch((err) => err): a fulfilment passes through, a rejection becomes a
\* fulfilment with the reason.
catch(p) == IF p.state = "rejected" THEN Fulfilled(p.value) ELSE p

\* getFileType(file) is called: getArrayBuffer's executor runs, and .then
\* and .catch chain their promises.  threw: new FileReader, file.slice or
\* readAsArrayBuffer throws, and the catch of line 34 rejects.
getFileType(threw) ==
    /\ arrayBufferP.state = "none"
    /\ reader' = IF threw THEN "none" ELSE "reading"
    /\ arrayBufferP' =
           IF threw THEN reject(Pending, ErrorValue("exception")) ELSE Pending
    /\ thenP' = Pending
    /\ fileTypeP' = Pending
    /\ UNCHANGED <<file, signatureList, fired, scans>>
    /\ UNCHANGED checkVars

\* The reader delivers `event` to its handler.
Deliver(event) ==
    /\ reader = "reading"
    /\ Len(fired) < MaxEvents
    /\ fired' = Append(fired, event)

\* reader.onload = (e) => { reslove(new Uint8Array(e.target.result)) }
onload ==
    /\ Deliver("load")
    /\ arrayBufferP' = reslove(arrayBufferP, windowOf(file))
    /\ UNCHANGED <<file, signatureList, reader, thenP, fileTypeP, scans>>
    /\ UNCHANGED checkVars

\* Line 31 calling reslove for reject: the callback then scans an event,
\* an object without bytes.
onerrorResolves ==
    /\ Deliver("error")
    /\ arrayBufferP' = reslove(arrayBufferP, BuffersValue(<<>>))
    /\ UNCHANGED <<file, signatureList, reader, thenP, fileTypeP, scans>>
    /\ UNCHANGED checkVars

\* reader.onerror = (err) => reject(err)
onerror ==
    /\ Deliver("error")
    /\ arrayBufferP' = reject(arrayBufferP, ErrorValue("error"))
    /\ UNCHANGED <<file, signatureList, reader, thenP, fileTypeP, scans>>
    /\ UNCHANGED checkVars

\* reader.onabort = (err) => reject(err)
onabort ==
    /\ Deliver("abort")
    /\ arrayBufferP' = reject(arrayBufferP, ErrorValue("abort"))
    /\ UNCHANGED <<file, signatureList, reader, thenP, fileTypeP, scans>>
    /\ UNCHANGED checkVars

\* The reaction of .then: once getArrayBuffer's promise is fulfilled the
\* callback scans the list; a rejection passes to the next promise.
thenReaction ==
    /\ Settled(arrayBufferP)
    /\ thenP.state = "pending"
    /\ IF arrayBufferP.state = "fulfilled"
       THEN /\ thenP' = Fulfilled(scan(arrayBufferP.value.buffers, signatureList, file))
            /\ scans' = scans + 1
       ELSE /\ thenP' = Rejected(arrayBufferP.value)
            /\ scans' = scans
    /\ UNCHANGED <<file, signatureList, reader, fired, arrayBufferP, fileTypeP>>
    /\ UNCHANGED checkVars

\* The reaction of .catch, which settles the promise getFileType returned.
catchReaction ==
    /\ Settled(thenP)
    /\ fileTypeP.state = "pending"
    /\ fileTypeP' = catch(thenP)
    /\ UNCHANGED <<file, signatureList, reader, fired, arrayBufferP, thenP, scans>>
    /\ UNCHANGED checkVars

\* check's variables, while no check is being stepped through.
NoCheck ==
    /\ bufferss = <<>>
    /\ typeItem = [signature |-> <<>>, offset |-> Undefined]
    /\ pcCheck = "done"
    /\ ret = FALSE
    /\ exitAt = 0
    /\ prior = <<>>

---------------------------------------------------------------------------
(* SpecScan: the reactions of getFileType on every file and list within   *)
(* the bounds, from the moment the window has been read.                   *)

\* file.type as the browser declares it: unknown, or taken from the name.
DeclaredTypes == {"", "image/jpeg"}
FileNames == {"photo.png", "photo.jpg"}

\* mime and ext of the first entries of the README's table, lines 28-31.
TypeNames ==
    << [mime |-> "image/png", ext |-> "png"],
       [mime |-> "video/mp4", ext |-> "mp4"],
       [mime |-> "image/jpeg", ext |-> "jpg,jpeg"],
       [mime |-> "application/pdf", ext |-> "pdf"] >>

\* The list is imported as it is written, unvalidated: a signature may be
\* empty.
ScanItems ==
    [signature : SeqsUpTo((0 .. TblMaxByte) \cup {Undefined}, TblSigLen),
     offset : 0 .. TblOffset]

\* The k-th entry carries the k-th type, so that a result names its entry.
Named(items) ==
    [k \in 1 .. Len(items) |->
        [mime |-> TypeNames[k].mime, ext |-> TypeNames[k].ext,
         offset |-> items[k].offset, signature |-> items[k].signature]]

Tables == {Named(items) : items \in SeqsUpTo(ScanItems, MaxTable)}

Files == [name : {"photo.jpg"}, type : DeclaredTypes, bytes : SeqsUpTo(Byte, MaxFileLen)]

\* The README's table of signatures, lines 28-36, in its order.
ReadmeList ==
    << [mime |-> "application/pdf", ext |-> "pdf", offset |-> 0,
        signature |-> <<37, 80, 68, 70, 45>>],
       [mime |-> "image/jpeg", ext |-> "jpg,jpeg", offset |-> 0,
        signature |-> <<255, 216, 255>>],
       [mime |-> "image/png", ext |-> "png", offset |-> 0,
        signature |-> <<137, 80, 78, 71, 13, 10, 26, 10>>],
       [mime |-> "video/mp4", ext |-> "mp4", offset |-> 4,
        signature |-> <<102, 116, 121, 112, 105, 115, 111, 109>>],
       [mime |-> "image/gif", ext |-> "gif", offset |-> 0,
        signature |-> <<71, 73, 70, 56, 55, 97>>],
       [mime |-> "audio/mpeg", ext |-> "mp3", offset |-> 0,
        signature |-> <<73, 68, 51>>],
       [mime |-> "video/x-flv", ext |-> "flv", offset |-> 0,
        signature |-> <<70, 76, 86>>],
       [mime |-> "application/ogg", ext |-> "ogg,oga,ogv", offset |-> 0,
        signature |-> <<79, 103, 103, 83>>],
       [mime |-> "application/x-rar-compressed", ext |-> "rar", offset |-> 0,
        signature |-> <<82, 97, 114, 33, 26, 7, 0>>] >>

\* The first 32 bytes of the README's png, line 72.
PngHead ==
    <<137, 80, 78, 71, 13, 10, 26, 10, 0, 0, 0, 13, 73, 72, 68, 82,
      0, 0, 0, 64, 0, 0, 0, 64, 8, 6, 0, 0, 0, 170, 105, 113>>

Zeros32 == [i \in 1 .. DefaultEnd |-> 0]

\* Contents of sample files: a png longer than the window, an mp4, a file
\* with the mp3 signature at 0 and the mp4 signature at 4, 32 zero bytes,
\* an empty file, and a jpeg cut after two bytes.
SampleBytes ==
    { PngHead \o <<0, 0>>,
      <<0, 0, 0, 24, 102, 116, 121, 112, 105, 115, 111, 109>>,
      <<73, 68, 51, 3, 102, 116, 121, 112, 105, 115, 111, 109>>,
      Zeros32,
      <<>>,
      <<255, 216>> }

SampleFiles == [name : {"photo.jpg"}, type : DeclaredTypes, bytes : SampleBytes]

\* The file and the list of a call: any small file against any small list,
\* or a sample file against the README's list.
Inputs ==
    \/ file \in Files /\ signatureList \in Tables
    \/ file \in SampleFiles /\ signatureList = ReadmeList

InitScan ==
    /\ Inputs
    /\ reader = "reading"
    /\ fired = <<"load">>
    /\ arrayBufferP = Fulfilled(windowOf(file))
    /\ thenP = Pending
    /\ fileTypeP = Pending
    /\ scans = 0
    /\ NoCheck

NextScan ==
    \/ thenReaction
    \/ catchReaction

SpecScan == InitScan /\ [][NextScan]_vars

---------------------------------------------------------------------------
(* Spec: one getFileType call on a sample file against the README's list. *)
(* The reader's events and the promises' reactions interleave freely; a   *)
(* browser runs the reactions of a settled promise before the next event, *)
(* which is one of these interleavings.                                    *)

Init ==
    /\ file \in SampleFiles
    /\ signatureList = ReadmeList
    /\ NoCall
    /\ NoCheck

Next ==
    \/ \E threw \in BOOLEAN : getFileType(threw)
    \/ onload
    \/ onerror
    \/ onabort
    \/ thenReaction
    \/ catchReaction

Spec == Init /\ [][Next]_vars

---------------------------------------------------------------------------
(* Claims about the scan, under SpecScan. *)

\* The window the .then callback received.
Window == arrayBufferP.value.buffers

\* The positions of the entries of the list that the window matches.
Matching == {k \in 1 .. Len(signatureList) : check(Window, signatureList[k])}

FirstMatching == CHOOSE k \in Matching : \A j \in Matching : k <= j

TypeOf(k) == TypeValue(signatureList[k].mime, signatureList[k].ext)

\* C1: when one or more entries match the window, the call's result is the
\* {mime, ext} of the matching entry with the lowest index.
C1_FirstMatchWins ==
    (Settled(fileTypeP) /\ Matching # {}) =>
        fileTypeP = Fulfilled(TypeOf(FirstMatching))

\* C1's case: two entries match the window, an earlier entry does not, and
\* the call has settled.
C1_Witness ==
    /\ Settled(fileTypeP)
    /\ Cardinality(Matching) >= 2
    /\ FirstMatching > 1
    /\ fileTypeP.value.kind = "type"

\* C2: when no entry matches the window, the call fulfils with the file's
\* declared type as mime and the empty string as ext.
C2_FallbackWhenNoMatch ==
    (Settled(fileTypeP) /\ Matching = {}) =>
        fileTypeP = Fulfilled(TypeValue(file.type, ""))

\* C2's case: the README's list, none of whose entries matches a window of
\* 32 zero bytes, a declared type, and the call has settled.
C2_Witness ==
    /\ Settled(fileTypeP)
    /\ signatureList = ReadmeList
    /\ Matching = {}
    /\ Window = Zeros32
    /\ file.type # ""

\* C6: when some entry matches the window, a file of any other name and
\* declared type with the same window gets the same result.
C6_ResultIgnoresNameAndDeclaredType ==
    (Settled(fileTypeP) /\ Matching # {}) =>
        \A n \in FileNames, t \in DeclaredTypes :
            scan(Window, signatureList, [file EXCEPT !.name = n, !.type = t])
                = fileTypeP.value

\* C6's case: the README's png in a file named .jpg and declared
\* image/jpeg, and the call has settled with image/png.
C6_Witness ==
    /\ Settled(fileTypeP)
    /\ file.name = "photo.jpg"
    /\ file.type = "image/jpeg"
    /\ Window = PngHead
    /\ signatureList = ReadmeList
    /\ fileTypeP.value = TypeValue("image/png", "png")

\* C7 as claimed: an entry with an empty signature never produces a
\* recognized result.
C7_EmptyPatternNeverRecognized ==
    (Settled(fileTypeP) /\ Matching # {}) =>
        signatureList[FirstMatching].signature # <<>>

---------------------------------------------------------------------------
(* Claims about the call, under Spec. *)

\* What the first thing that happened to the read rejected the promise
\* with: the exception when no event was delivered, else the first event.
FirstFailure == ErrorValue(IF fired = <<>> THEN "exception" ELSE fired[1])

\* C9: the promise getFileType returns is never rejected; when the read
\* fails (an error or abort event, or an exception), no scan runs and the
\* promise fulfils with the value the read was rejected with.
C9_NeverRejects ==
    /\ fileTypeP.state # "rejected"
    /\ arrayBufferP.state = "rejected" =>
          /\ scans = 0
          /\ arrayBufferP.value = FirstFailure
          /\ Settled(fileTypeP) => fileTypeP = Fulfilled(FirstFailure)

\* C9's case: the read was aborted, a load event came after it, and the
\* call has settled.
C9_Witness ==
    /\ fired = <<"abort", "load">>
    /\ arrayBufferP.state = "rejected"
    /\ Settled(fileTypeP)

\* The state predicates of C10: the scan runs at most once, and a {mime,
\* ext} result exists only when the first event delivered was load and the
\* scan has run.
OneOutcome ==
    /\ scans <= 1
    /\ fileTypeP.value.kind = "type" =>
          /\ fired # <<>>
          /\ fired[1] = "load"
          /\ scans = 1
          /\ fileTypeP.state = "fulfilled"

\* C10: a call has at most one outcome: once a promise of the call is
\* settled no later event or reaction changes it, the scan runs at most
\* once, and a {mime, ext} result comes only after a first event load.
C10_AtMostOneOutcome ==
    /\ []OneOutcome
    /\ [][/\ Settled(arrayBufferP) => arrayBufferP' = arrayBufferP
          /\ Settled(thenP) => thenP' = thenP
          /\ Settled(fileTypeP) => fileTypeP' = fileTypeP]_vars

\* C10's case: load then error were delivered and the call has settled
\* with a {mime, ext} result.
C10_Witness ==
    /\ fired = <<"load", "error">>
    /\ Settled(fileTypeP)
    /\ fileTypeP.value.kind = "type"

=============================================================================
